---- MODULE Spec2Model ----
(***************************************************************************)
(* Model of the batch-transfer script (index.js, checkBalance.js).         *)
(*                                                                         *)
(* The run is one sequential async procedure.  Each action is the code     *)
(* that runs between two suspension points (an await of a network call or  *)
(* of sleep); pc names the suspension point the run is at.                 *)
(*                                                                         *)
(* Numbers.  Amounts and balances are decimal numbers m * 10^e, kept as    *)
(* records [m, e]: wei-scale values (10^18) do not fit machine integers.   *)
(* Comparisons are exact; the rounding of IEEE doubles done by parseFloat  *)
(* is not modelled, the values drawn are exactly representable ones.       *)
(***************************************************************************)
EXTENDS Integers, Sequences, FiniteSets, TLC

VARIABLES
    \* operator input and files (fixed for the run)
    transferType, transferDirection, tokenContract, amount,
    destinationAddress, transactionCount, keyFile, targetFile,
    \* the run
    pc, exitCode, privateKeys, targetAddresses, k, wallet, senderBalance,
    i, receiverAddress, gasPrice, rt, tx, log,
    \* what has been observed of the run (history); slept is the time spent
    \* in sleep(15000) for the current index
    gate, attempted, sent, total, netFailed, underfunded, slept,
    \* the operation handed to retry, when retry is exercised on its own
    fnFailures, fnResult

vars == <<transferType, transferDirection, tokenContract, amount,
          destinationAddress, transactionCount, keyFile, targetFile,
          pc, exitCode, privateKeys, targetAddresses, k, wallet,
          senderBalance, i, receiverAddress, rt, tx, log,
          gate, attempted, sent, total, netFailed, underfunded, gasPrice, slept,
          fnFailures, fnResult>>

----------------------------------------------------------------------------
\* Program constants.

MAX_RETRIES == 5
RETRY_DELAY == 5000
SETTLE_DELAY == 15000
\* the "ether" unit of formatUnits / parseUnits
EtherDecimals == 18
\* the decimals the balance of a token is formatted with
DefaultTokenDecimals == 18

\* Bounds of the model.
MaxKeys == 2
MaxTargets == 2
MaxCount == 2
\* Math.random() is drawn from {0/RandomSteps, ..., (RandomSteps-1)/RandomSteps}
RandomSteps == 3
\* retry on its own: maxRetries is drawn from 1..MaxRetriesArg
MaxRetriesArg == 6

----------------------------------------------------------------------------
\* Values.

Null == [null |-> TRUE]
NoAddress == "<none>"
UndefinedAddress == "undefined"

Dec(m, e) == [m |-> m, e |-> e]

RECURSIVE Pow10(_)
Pow10(n) == IF n <= 0 THEN 1 ELSE 10 * Pow10(n - 1)

\* x < y for decimals with mantissas below 10^7, without forming 10^d for
\* a d that overflows: a shift of more than 7 digits decides by itself.
DecLess(x, y) ==
    IF y.m = 0 THEN FALSE
    ELSE IF x.m = 0 THEN TRUE
    ELSE LET d == x.e - y.e IN
         IF d >= 0
         THEN d <= 7 /\ x.m * Pow10(d) < y.m
         ELSE (-d) > 7 \/ x.m < y.m * Pow10(-d)

DecEq(x, y) == ~DecLess(x, y) /\ ~DecLess(y, x)

\* number * integer
DecTimes(x, n) == Dec(x.m * n, x.e)

\* ethers.formatUnits(value, decimals), read back by parseFloat: the value
\* shifted down by `decimals` digits.
formatUnits(value, decimals) == Dec(value.m, value.e - decimals)

\* Number.prototype.toString: plain decimal digits for 1e-6 <= x < 1e21,
\* exponent notation ("1e-7", "1e+21") outside.  x.m carries no trailing
\* zero, so x.m has 1..2 digits here.
Digits(m) == IF m < 10 THEN 1 ELSE 2
toString(x) ==
    [notation |-> IF x.m # 0 /\ (Digits(x.m) + x.e <= -6 \/ Digits(x.m) + x.e > 21)
                  THEN "exponent" ELSE "plain",
     m |-> x.m, e |-> x.e]

\* ethers.parseUnits(string, decimals): throws on a string that is not plain
\* decimal digits and on more fraction digits than `decimals`.
parseUnitsThrows(str, decimals) ==
    str.notation # "plain" \/ (str.m # 0 /\ -str.e > decimals)
parseUnits(str, decimals) == Dec(str.m, str.e + decimals)

Range(s) == {s[n] : n \in 1..Len(s)}

----------------------------------------------------------------------------
\* Files: a file that exists is a sequence of lines; a line is its text and
\* whether white space surrounds it (pad).

Line(text, pad) == [text |-> text, pad |-> pad]
File(lines) == [exists |-> TRUE, lines |-> lines]
AbsentFile == [exists |-> FALSE, lines |-> <<>>]

\* String.prototype.trim: the text without the surrounding white space
trim(line) == line.text

RECURSIVE SelectNonEmpty(_)
SelectNonEmpty(s) ==
    IF s = <<>> THEN <<>>
    ELSE IF Head(s) # "" THEN <<Head(s)>> \o SelectNonEmpty(Tail(s))
    ELSE SelectNonEmpty(Tail(s))

\* .split('\n').map(trim).filter(length > 0)
ReadLines(file) == SelectNonEmpty([n \in 1..Len(file.lines) |-> trim(file.lines[n])])

\* readPrivateKeys / readTargetAddresses: the list, or process.exit(1)
readPrivateKeysExits == ~keyFile.exists \/ ReadLines(keyFile) = <<>>
readPrivateKeys == ReadLines(keyFile)
readTargetAddressesExits == ~targetFile.exists \/ ReadLines(targetFile) = <<>>
readTargetAddresses == ReadLines(targetFile)

----------------------------------------------------------------------------
\* retry(fn, maxRetries, delay)

Undefined == [undefined |-> TRUE]

\* the state of one call of retry: the loop index i, the invocations of fn
\* made, the sleeps made, and how the call ended
RetryStart(maxRetries, delay) ==
    [maxRetries |-> maxRetries, delay |-> delay, i |-> 0, calls |-> 0,
     sleeps |-> 0,
     status |-> IF 0 < maxRetries THEN "running" ELSE "returned",
     value |-> Undefined, error |-> 0]

Returned(value) == [ok |-> TRUE, value |-> value, error |-> 0]
Threw(error) == [ok |-> FALSE, value |-> Undefined, error |-> error]

\* mutant: gives up one attempt early
RetryStepEarly(r, outcome) ==
    IF outcome.ok
    THEN [r EXCEPT !.calls = @ + 1, !.status = "returned", !.value = outcome.value]
    ELSE IF r.i >= r.maxRetries - 2
    THEN [r EXCEPT !.calls = @ + 1, !.status = "thrown", !.error = outcome.error]
    ELSE [r EXCEPT !.calls = @ + 1, !.i = @ + 1, !.sleeps = @ + 1]

\* mutant: the last failure is swallowed, retry returns undefined
RetryStepSwallow(r, outcome) ==
    IF outcome.ok
    THEN [r EXCEPT !.calls = @ + 1, !.status = "returned", !.value = outcome.value]
    ELSE IF r.i = r.maxRetries - 1
    THEN [r EXCEPT !.calls = @ + 1, !.status = "returned"]
    ELSE [r EXCEPT !.calls = @ + 1, !.i = @ + 1, !.sleeps = @ + 1]

\* mutant: one invocation more than maxRetries before the error is thrown
RetryStepOneMore(r, outcome) ==
    IF outcome.ok
    THEN [r EXCEPT !.calls = @ + 1, !.status = "returned", !.value = outcome.value]
    ELSE IF r.i = r.maxRetries
    THEN [r EXCEPT !.calls = @ + 1, !.status = "thrown", !.error = outcome.error]
    ELSE [r EXCEPT !.calls = @ + 1, !.i = @ + 1, !.sleeps = @ + 1]

\* one pass of the loop body: fn is invoked and `outcome` is what it did
RetryStep(r, outcome) ==
    IF outcome.ok
    THEN [r EXCEPT !.calls = @ + 1, !.status = "returned", !.value = outcome.value]
    ELSE IF r.i = r.maxRetries - 1
    THEN [r EXCEPT !.calls = @ + 1, !.status = "thrown", !.error = outcome.error]
    ELSE LET next == [r EXCEPT !.calls = @ + 1, !.i = @ + 1, !.sleeps = @ + 1] IN
         \* the loop condition i < maxRetries, after the i++
         IF next.i < next.maxRetries THEN next
         ELSE [next EXCEPT !.status = "returned"]

\* the error an invocation throws is named by the invocation's ordinal
ErrorOf(r) == r.calls + 1

----------------------------------------------------------------------------
\* The collaborators: wallet derivation, the chain and the token contract.

KeyNames == <<"key1", "key2", "key3", "key4">>
SenderAddresses == <<"0xS1", "0xS2", "0xS3", "0xS4">>
TargetNames == <<"0xT1", "0xT2", "0xT3", "0xT4">>
Destination == "0xDEST"
\* decimals() of the token contracts the operator may name
TokenDecimals == {6, 18, 20}
\* the amounts the operator may enter: 1 and 0.0000001
Amounts == {Dec(1, 0), Dec(1, -7)}

\* new ethers.Wallet(privateKey, provider) throws on a string that is no key
IsPrivateKey(key) == key \in Range(KeyNames)
WalletAddress(key) ==
    SenderAddresses[CHOOSE n \in 1..Len(KeyNames) : KeyNames[n] = key]

\* the decimals of the asset being moved
AssetDecimals ==
    IF tokenContract = Null THEN EtherDecimals ELSE tokenContract.decimals

\* checkBalance(provider, address, tokenContract): the raw balance, in the
\* asset's smallest unit, that getBalance / balanceOf may answer: 1 or 4
\* whole units of the asset, or (token) 4 * 10^18 smallest units.
checkBalance ==
    IF tokenContract # Null
    THEN {Dec(1, tokenContract.decimals), Dec(4, tokenContract.decimals),
          Dec(4, DefaultTokenDecimals)}
    ELSE {Dec(1, EtherDecimals), Dec(4, EtherDecimals)}

\* the balance in whole units of the asset
WholeBalance(raw) == formatUnits(raw, AssetDecimals)

----------------------------------------------------------------------------
\* Pieces of main.

\* what the balance must cover, by direction (lines 192, 298)
Required ==
    IF transferDirection = "one-to-many"
    THEN DecTimes(amount, transactionCount)
    ELSE amount

\* balanceFormatted (lines 186-188, 292-294): "ether" for the native coin,
\* 18 decimals for every token
BalanceFormatted(balance) ==
    IF transferType = "native"
    THEN formatUnits(balance, EtherDecimals)
    ELSE formatUnits(balance, DefaultTokenDecimals)

\* mutant: fan-out checks one transaction's amount only
InsufficientBalanceOneTx(balance) == DecLess(BalanceFormatted(balance), amount)

\* parseFloat(balanceFormatted) < amount * transactionCount  (or < amount)
InsufficientBalance(balance) == DecLess(BalanceFormatted(balance), Required)

\* mutant: Math.ceil instead of Math.floor
RandomIndexCeil(j, len) == (j * len + RandomSteps - 1) \div RandomSteps

\* Math.floor(Math.random() * len), Math.random() = j / RandomSteps
RandomIndex(j, len) == (j * len) \div RandomSteps

\* targetAddresses[index], index counted from 0 as in the source
TargetAt(index) ==
    IF index + 1 \in 1..Len(targetAddresses)
    THEN targetAddresses[index + 1] ELSE UndefinedAddress

\* mutant: the random target is used in both directions
ChooseReceiverAlwaysRandom(j) == TargetAt(RandomIndex(j, Len(targetAddresses)))

\* the receiver of one transaction (line 199; lines 320, 329)
ChooseReceiver(j) ==
    IF transferDirection = "one-to-many"
    THEN TargetAt(RandomIndex(j, Len(targetAddresses)))
    ELSE destinationAddress

RandomDraws ==
    IF transferDirection = "one-to-many" THEN 0..(RandomSteps - 1) ELSE {0}

\* mutant: the token amount is scaled by the default 18 decimals
TokenAmountDefault(decimals) == parseUnits(toString(amount), DefaultTokenDecimals)

\* transferToken: ethers.parseUnits(amount.toString(), decimals)
TokenAmount(decimals) == parseUnits(toString(amount), decimals)

NativeAmount == parseUnits(toString(amount), EtherDecimals)

Transaction(to, value) == [from |-> wallet, to |-> to, value |-> value]

\* mutant: no receipt is taken for a failed transaction
ReceiptReportNullFailed(receipt) ==
    IF receipt \in {Null, Undefined} THEN "failed"
    ELSE IF receipt.status = 1 THEN "success" ELSE "failed"

\* mutant: the status test is inverted
ReceiptReportInverted(receipt) ==
    IF receipt \in {Null, Undefined} THEN "pending"
    ELSE IF receipt.status = 1 THEN "failed" ELSE "success"

\* the status line printed for the result of the receipt lookup
ReceiptReport(receipt) ==
    IF receipt \in {Null, Undefined} THEN "pending"
    ELSE IF receipt.status = 1 THEN "success" ELSE "failed"

\* mutant: break instead of continue
BreakIndex(idx) == IF idx + 1 > transactionCount THEN idx + 1 ELSE transactionCount

\* `continue` in the transaction loop: on to the next index
ContinueIndex(idx) == idx + 1


----------------------------------------------------------------------------
\* The state after the operator's prompts (main, lines 131-159): the job is
\* fixed, the files are about to be read.

\* the first n entries of a list
Take(entries, n) == [j \in 1..n |-> entries[j]]

\* a text file of the given entries, one per line, each line ended by CR LF:
\* split('\n') gives the entries, each with a trailing CR, and a last,
\* empty line
FileOf(entries) ==
    File([j \in 1..(Len(entries) + 1) |->
            IF j <= Len(entries) THEN Line(entries[j], TRUE) ELSE Line("", FALSE)])

\* the key file: absent, or up to MaxKeys lines; line j is key j or a string
\* that is no private key
KeyFiles ==
    {AbsentFile} \cup
    UNION {{FileOf(f) : f \in {g \in [1..len -> {"bad"} \cup Range(KeyNames)] :
                                 \A j \in 1..len : g[j] \in {"bad", KeyNames[j]}}}
           : len \in 0..MaxKeys}

\* the target file: absent, or up to MaxTargets addresses
TargetFiles ==
    {AbsentFile} \cup {FileOf(Take(TargetNames, len)) : len \in 0..MaxTargets}

Config ==
    /\ \/ transferType = "native" /\ tokenContract = Null
       \/ transferType = "token" /\ tokenContract \in {[decimals |-> d] : d \in TokenDecimals}
    /\ \/ transferDirection = "one-to-many" /\ destinationAddress = NoAddress
       \/ transferDirection = "many-to-one" /\ destinationAddress = Destination
    \* an amount the asset can express: no more fraction digits than its decimals
    /\ amount \in {a \in Amounts : -a.e <= AssetDecimals}
    /\ transactionCount \in 0..MaxCount
    /\ keyFile \in KeyFiles
    /\ targetFile \in TargetFiles

Idle ==
    /\ exitCode = -1
    /\ privateKeys = <<>>
    /\ targetAddresses = <<>>
    /\ k = 0
    /\ wallet = NoAddress
    /\ senderBalance = Null
    /\ i = 0
    /\ receiverAddress = NoAddress
    /\ tx = Null
    /\ log = "none"
    /\ gate = "none"
    /\ attempted = FALSE
    /\ sent = 0
    /\ total = 0
    /\ netFailed = FALSE
    /\ underfunded = FALSE
    /\ gasPrice = Null
    /\ slept = 0

Init ==
    /\ Config
    /\ Idle
    /\ rt = RetryStart(MAX_RETRIES, RETRY_DELAY)
    /\ pc = "load"
    /\ fnFailures = 0
    /\ fnResult = Null

job == <<transferType, transferDirection, tokenContract, amount,
         destinationAddress, transactionCount, keyFile, targetFile>>
fnVars == <<fnFailures, fnResult>>

\* process.exit(code)
Exit(code, line) ==
    /\ pc' = "exit"
    /\ exitCode' = code
    /\ log' = line

----------------------------------------------------------------------------
\* main, lines 161-166: the files are read, then the count is asked.
LoadInputs ==
    /\ pc = "load"
    /\ IF readPrivateKeysExits \/ readTargetAddressesExits
       THEN /\ Exit(1, "inputError")
            /\ UNCHANGED <<privateKeys, targetAddresses, k>>
       ELSE /\ privateKeys' = readPrivateKeys
            /\ targetAddresses' = readTargetAddresses
            /\ k' = 1
            /\ pc' = "sender"
            /\ UNCHANGED <<exitCode, log>>
    /\ UNCHANGED <<job, fnVars, wallet, senderBalance, i, receiverAddress, rt, tx,
                   gate, attempted, sent, total, netFailed, underfunded, gasPrice, slept>>

\* the head of the loop over the keys, lines 170-175 and 276-280
StartSender ==
    /\ pc = "sender"
    /\ k <= Len(privateKeys)
    /\ IsPrivateKey(privateKeys[k])
    /\ wallet' = WalletAddress(privateKeys[k])
    /\ senderBalance' = Null
    /\ rt' = RetryStart(MAX_RETRIES, RETRY_DELAY)
    /\ pc' = "balance"
    /\ log' = "processing"
    /\ gate' = "none"
    /\ attempted' = FALSE
    /\ sent' = 0
    /\ i' = 0
    /\ tx' = Null
    /\ receiverAddress' = NoAddress
    /\ gasPrice' = Null
    /\ slept' = 0
    /\ UNCHANGED <<job, fnVars, exitCode, privateKeys, targetAddresses, k,
                   total, netFailed, underfunded>>

\* new ethers.Wallet throws outside every try: main().catch, lines 384-387
WalletThrows ==
    /\ pc = "sender"
    /\ k <= Len(privateKeys)
    /\ ~IsPrivateKey(privateKeys[k])
    /\ Exit(1, "unexpectedError")
    /\ UNCHANGED <<job, fnVars, privateKeys, targetAddresses, k, wallet,
                   senderBalance, i, receiverAddress, rt, tx, gate, attempted,
                   sent, total, netFailed, underfunded, gasPrice, slept>>

\* after the loop, lines 378-381
Complete ==
    /\ pc = "sender"
    /\ k > Len(privateKeys)
    /\ Exit(0, "completed")
    /\ UNCHANGED <<job, fnVars, privateKeys, targetAddresses, k, wallet,
                   senderBalance, i, receiverAddress, rt, tx, gate, attempted,
                   sent, total, netFailed, underfunded, gasPrice, slept>>

\* mutant: the pass ends but the same key is taken again
NextKeySame ==
    /\ k' = k
    /\ pc' = "sender"
    /\ wallet' = NoAddress
    /\ senderBalance' = Null
    /\ rt' = RetryStart(MAX_RETRIES, RETRY_DELAY)
    /\ i' = 0
    /\ tx' = Null
    /\ receiverAddress' = NoAddress
    /\ attempted' = FALSE
    /\ sent' = 0
    /\ gasPrice' = Null
    /\ slept' = 0

\* the end of one pass of the loop over the keys (a `continue` or the end of
\* the body): the locals of the pass go out of scope, the next key is taken
NextKey ==
    /\ k' = k + 1
    /\ pc' = "sender"
    /\ wallet' = NoAddress
    /\ senderBalance' = Null
    /\ rt' = RetryStart(MAX_RETRIES, RETRY_DELAY)
    /\ i' = 0
    /\ tx' = Null
    /\ receiverAddress' = NoAddress
    /\ attempted' = FALSE
    /\ sent' = 0
    /\ gasPrice' = Null
    /\ slept' = 0

\* one attempt of retry(() => checkBalance(...)), lines 176-184 and 282-290
CheckBalance ==
    /\ pc = "balance"
    /\ \E o \in {Returned(b) : b \in checkBalance} \cup {Threw(ErrorOf(rt))} :
         LET r == RetryStep(rt, o) IN
         /\ netFailed' = (netFailed \/ ~o.ok)
         /\ CASE r.status = "returned" ->
                   /\ senderBalance' = r.value
                   /\ rt' = r
                   /\ pc' = "gate"
                   /\ UNCHANGED <<k, log, gate, wallet, i, tx, receiverAddress,
                                  attempted, sent, gasPrice, slept>>
              [] r.status = "thrown" ->
                   /\ log' = "balanceCheckFailed"
                   /\ gate' = "unchecked"
                   /\ NextKey
              [] OTHER ->
                   /\ rt' = r
                   /\ UNCHANGED <<senderBalance, pc, k, log, gate, wallet, i, tx,
                                  receiverAddress, attempted, sent, gasPrice, slept>>
    /\ UNCHANGED <<job, fnVars, exitCode, privateKeys, targetAddresses, total,
                   underfunded>>

\* lines 186-195 and 292-301: the balance is formatted and compared
BalanceGate ==
    /\ pc = "gate"
    /\ underfunded' = (underfunded \/
                       DecLess(WholeBalance(senderBalance), Required))
    /\ IF InsufficientBalance(senderBalance)
       THEN /\ gate' = "insufficient"
            /\ log' = "insufficient"
            /\ NextKey
       ELSE /\ gate' = "sufficient"
            /\ i' = 0
            /\ pc' = "tx"
            /\ UNCHANGED <<k, log, wallet, senderBalance, receiverAddress, rt,
                           tx, attempted, sent, gasPrice, slept>>
    /\ UNCHANGED <<job, fnVars, exitCode, privateKeys, targetAddresses, total,
                   netFailed>>

\* the transaction loop is over, lines 270 and 374
FinishSender ==
    /\ pc = "tx"
    /\ i >= transactionCount
    /\ log' = "finished"
    /\ NextKey
    /\ UNCHANGED <<job, fnVars, exitCode, privateKeys, targetAddresses, gate,
                   total, netFailed, underfunded>>

\* the head of the transaction loop, lines 197-209 and 303-313: the receiver
\* is chosen; a native transfer parses the amount and asks for the fee data,
\* a token transfer goes to retry(() => transferToken(...))
BeginTransaction ==
    /\ pc = "tx"
    /\ i < transactionCount
    /\ \E j \in RandomDraws : receiverAddress' = ChooseReceiver(j)
    /\ tx' = Null
    /\ gasPrice' = Null
    /\ slept' = 0
    /\ IF transferType = "native"
       THEN IF parseUnitsThrows(toString(amount), EtherDecimals)
            THEN /\ log' = "sendError"
                 /\ i' = ContinueIndex(i)
                 /\ UNCHANGED <<pc, rt>>
            ELSE /\ pc' = "fee"
                 /\ log' = "sending"
                 /\ UNCHANGED <<i, rt>>
       ELSE /\ rt' = RetryStart(MAX_RETRIES, RETRY_DELAY)
            /\ pc' = "send"
            /\ log' = "sending"
            /\ UNCHANGED i
    /\ UNCHANGED <<job, fnVars, exitCode, privateKeys, targetAddresses, k, wallet,
                   senderBalance, gate, attempted, sent, total, netFailed,
                   underfunded>>

\* provider.getFeeData(), lines 207-213 and 311-317
FetchFeeData ==
    /\ pc = "fee"
    /\ \E ok \in BOOLEAN :
         /\ gasPrice' = IF ok THEN [gasPrice |-> "fee"] ELSE Null
         /\ netFailed' = (netFailed \/ ~ok)
         /\ IF ok
            THEN /\ rt' = RetryStart(MAX_RETRIES, RETRY_DELAY)
                 /\ pc' = "send"
                 /\ UNCHANGED <<i, log>>
            ELSE /\ log' = "feeError"
                 /\ i' = ContinueIndex(i)
                 /\ pc' = "tx"
                 /\ UNCHANGED rt
    /\ UNCHANGED <<job, fnVars, exitCode, privateKeys, targetAddresses, k, wallet,
                   senderBalance, receiverAddress, tx, gate, attempted, sent,
                   total, underfunded, slept>>

\* what follows one attempt of the retried submission, lines 223-244 and
\* 327-348: the transaction is printed and the settle delay begins, or the
\* error is printed and the loop continues, or retry goes on
AfterSend(r) ==
    /\ rt' = r
    /\ CASE r.status = "returned" ->
              /\ tx' = r.value
              /\ sent' = sent + 1
              /\ total' = total + 1
              /\ log' = "submitted"
              /\ pc' = "settle"
              /\ UNCHANGED i
         [] r.status = "thrown" ->
              /\ log' = "sendError"
              /\ i' = ContinueIndex(i)
              /\ pc' = "tx"
              /\ UNCHANGED <<tx, sent, total>>
         [] OTHER ->
              UNCHANGED <<tx, sent, total, log, pc, i>>

\* one attempt of retry(() => wallet.sendTransaction(transaction))
SendTransaction ==
    /\ pc = "send"
    /\ transferType = "native"
    /\ \E o \in {Returned(Transaction(receiverAddress, NativeAmount)),
                 Threw(ErrorOf(rt))} :
         /\ netFailed' = (netFailed \/ ~o.ok)
         /\ attempted' = TRUE
         /\ AfterSend(RetryStep(rt, o))
    /\ UNCHANGED <<job, fnVars, exitCode, privateKeys, targetAddresses, k, wallet,
                   senderBalance, receiverAddress, gasPrice, slept, gate, underfunded>>

\* one attempt of retry(() => transferToken(...)), lines 118-129: decimals()
\* is read, the amount is parsed, transfer(to, amount) is submitted
TransferToken ==
    /\ pc = "send"
    /\ transferType = "token"
    /\ \E decimalsOk \in BOOLEAN, transferOk \in BOOLEAN :
         LET decimals == tokenContract.decimals
             parsed == decimalsOk /\ ~parseUnitsThrows(toString(amount), decimals)
             o == IF parsed /\ transferOk
                  THEN Returned(Transaction(receiverAddress, TokenAmount(decimals)))
                  ELSE Threw(ErrorOf(rt))
         IN
         /\ netFailed' = (netFailed \/ ~decimalsOk \/ (parsed /\ ~transferOk))
         /\ attempted' = (attempted \/ parsed)
         /\ AfterSend(RetryStep(rt, o))
    /\ UNCHANGED <<job, fnVars, exitCode, privateKeys, targetAddresses, k, wallet,
                   senderBalance, receiverAddress, gasPrice, slept, gate, underfunded>>

\* mutant: the receipt is not awaited, the loop moves on after the delay
SettleWithoutPoll ==
    /\ pc = "settle"
    /\ rt' = RetryStart(MAX_RETRIES, RETRY_DELAY)
    /\ pc' = "tx"
    /\ i' = i + 1
    /\ slept' = slept + SETTLE_DELAY
    /\ UNCHANGED <<job, fnVars, exitCode, privateKeys, targetAddresses, k, wallet,
                   senderBalance, receiverAddress, tx, log, gate, attempted,
                   sent, total, netFailed, underfunded, gasPrice>>

\* mutant: the receipt is looked up at once, without the settle delay
SettleNoDelay ==
    /\ pc = "settle"
    /\ rt' = RetryStart(MAX_RETRIES, RETRY_DELAY)
    /\ pc' = "receipt"
    /\ UNCHANGED <<job, fnVars, exitCode, privateKeys, targetAddresses, k, wallet,
                   senderBalance, i, receiverAddress, tx, log, gate, attempted,
                   sent, total, netFailed, underfunded, gasPrice, slept>>

\* await sleep(15000), lines 244 and 348, then the receipt lookup begins
Settle ==
    /\ pc = "settle"
    /\ rt' = RetryStart(MAX_RETRIES, RETRY_DELAY)
    /\ pc' = "receipt"
    /\ slept' = slept + SETTLE_DELAY
    /\ UNCHANGED <<job, fnVars, exitCode, privateKeys, targetAddresses, k, wallet,
                   senderBalance, i, receiverAddress, tx, log, gate, attempted,
                   sent, total, netFailed, underfunded, gasPrice>>

\* provider.getTransactionReceipt(hash): a receipt, or null while not mined
Receipts == {[status |-> 1], [status |-> 0], Null}

\* one attempt of retry(() => provider.getTransactionReceipt(tx.hash)) and
\* the report, lines 246-268 and 350-372
PollReceipt ==
    /\ pc = "receipt"
    /\ \E o \in {Returned(rc) : rc \in Receipts} \cup {Threw(ErrorOf(rt))} :
         LET r == RetryStep(rt, o) IN
         /\ rt' = r
         /\ netFailed' = (netFailed \/ ~o.ok)
         /\ CASE r.status = "returned" ->
                   /\ log' = ReceiptReport(r.value)
                   /\ i' = i + 1
                   /\ pc' = "tx"
              [] r.status = "thrown" ->
                   /\ log' = "statusError"
                   /\ i' = i + 1
                   /\ pc' = "tx"
              [] OTHER ->
                   UNCHANGED <<log, i, pc>>
    /\ UNCHANGED <<job, fnVars, exitCode, privateKeys, targetAddresses, k, wallet,
                   senderBalance, receiverAddress, gasPrice, slept, tx, gate, attempted,
                   sent, total, underfunded>>

Next ==
    \/ LoadInputs
    \/ StartSender
    \/ WalletThrows
    \/ Complete
    \/ CheckBalance
    \/ BalanceGate
    \/ BeginTransaction
    \/ FinishSender
    \/ FetchFeeData
    \/ SendTransaction
    \/ TransferToken
    \/ Settle
    \/ PollReceipt

Spec == Init /\ [][Next]_vars

----------------------------------------------------------------------------
\* retry on its own: fn fails its first fnFailures invocations and succeeds
\* with fnResult afterwards; fnFailures = -1 is a fn that always fails.

FnFails(n) == fnFailures = -1 \/ n <= fnFailures

InitRetry ==
    /\ transferType = "native"
    /\ transferDirection = "one-to-many"
    /\ tokenContract = Null
    /\ amount = Dec(1, 0)
    /\ destinationAddress = NoAddress
    /\ transactionCount = 0
    /\ keyFile = AbsentFile
    /\ targetFile = AbsentFile
    /\ Idle
    /\ pc = "retry"
    /\ \E maxRetries \in 1..MaxRetriesArg, delay \in {0, RETRY_DELAY} :
         rt = RetryStart(maxRetries, delay)
    /\ fnFailures \in -1..MaxRetriesArg
    /\ fnResult \in {[result |-> "a"], [result |-> "b"]}

\* one pass of retry's loop
RetryAttempt ==
    /\ pc = "retry"
    /\ rt.status = "running"
    /\ LET n == rt.calls + 1 IN
       rt' = RetryStep(rt, IF FnFails(n) THEN Threw(n) ELSE Returned(fnResult))
    /\ UNCHANGED <<job, fnVars, pc, exitCode, privateKeys, targetAddresses, k,
                   wallet, senderBalance, i, receiverAddress, gasPrice, slept, tx, log,
                   gate, attempted, sent, total, netFailed, underfunded>>

NextRetry == RetryAttempt

SpecRetry == InitRetry /\ [][NextRetry]_vars

----------------------------------------------------------------------------
\* Claims.

InTransactions == pc \in {"tx", "fee", "send", "settle", "receipt"}

\* C1: in fan-out mode a sender whose balance (in whole units of the asset)
\* is less than amount * count is skipped: no transaction is submitted for
\* it, native and token alike.
C1_FanOutSkipsShortSender ==
    (/\ transferDirection = "one-to-many"
     /\ senderBalance # Null
     /\ DecLess(WholeBalance(senderBalance), DecTimes(amount, transactionCount)))
    => sent = 0

\* C2: when fn fails K times and then succeeds, K < maxRetries, retry does
\* not throw, returns fn's result, and has invoked fn exactly K + 1 times.
C2_RetryReturnsAfterFailures ==
    (pc = "retry" /\ fnFailures >= 0 /\ fnFailures < rt.maxRetries)
    => /\ rt.status # "thrown"
       /\ rt.status = "running" => rt.calls <= fnFailures
       /\ rt.status = "returned" =>
            rt.value = fnResult /\ rt.calls = fnFailures + 1

C2_Witness ==
    /\ pc = "retry"
    /\ rt.maxRetries = MAX_RETRIES
    /\ fnFailures = MAX_RETRIES - 1
    /\ rt.status = "returned"
    /\ rt.calls = MAX_RETRIES

\* C3: when fn always fails, retry invokes it exactly maxRetries times and
\* then throws the error of the last invocation; it never returns.
C3_RetryThrowsLastError ==
    (pc = "retry" /\ fnFailures = -1)
    => /\ rt.status # "returned"
       /\ rt.status = "running" => rt.calls < rt.maxRetries
       /\ rt.status = "thrown" =>
            rt.calls = rt.maxRetries /\ rt.error = rt.maxRetries

C3_Witness ==
    /\ pc = "retry"
    /\ fnFailures = -1
    /\ rt.maxRetries = MAX_RETRIES
    /\ rt.status = "thrown"
    /\ rt.error = MAX_RETRIES

\* C4: in fan-out mode the receiver chosen for a transaction, and the
\* receiver of every submitted transaction, is an element of the loaded,
\* non-empty target list: never "", never undefined.
C4_FanOutReceiverFromList ==
    transferDirection = "one-to-many" =>
      /\ receiverAddress # NoAddress =>
           /\ targetAddresses # <<>>
           /\ receiverAddress \in Range(targetAddresses)
           /\ receiverAddress \notin {"", UndefinedAddress}
      /\ tx # Null =>
           /\ tx.to \in Range(targetAddresses)
           /\ tx.to \notin {"", UndefinedAddress}

C4_Witness ==
    /\ transferDirection = "one-to-many"
    /\ Len(targetAddresses) = 2
    /\ tx # Null
    /\ tx.to = targetAddresses[2]

\* C5: in fan-in mode the receiver of every submitted transaction is the
\* configured destination address, for every sender and index.
C5_FanInReceiverIsDestination ==
    transferDirection = "many-to-one" =>
      /\ receiverAddress # NoAddress => receiverAddress = destinationAddress
      /\ tx # Null => tx.to = destinationAddress /\ tx.to = Destination

C5_Witness ==
    /\ transferDirection = "many-to-one"
    /\ transferType = "token"
    /\ k = 2
    /\ i = 1
    /\ tx # Null
    /\ tx.to = Destination

\* C6: a fan-out run in which every sender's balance is at least
\* amount * count and every network call succeeds submits exactly
\* S * count transactions.
C6_FanOutSubmitsAll ==
    (/\ pc = "exit"
     /\ exitCode = 0
     /\ transferDirection = "one-to-many"
     /\ ~netFailed
     /\ ~underfunded)
    => total = Len(privateKeys) * transactionCount

\* C7: a submission is attempted for a sender only after that sender's
\* balance check completed and found the balance sufficient (at least
\* amount * count in fan-out, amount in fan-in); a sender found
\* insufficient has no submission attempt.
C7_AttemptOnlyAfterSufficientCheck ==
    /\ (attempted \/ sent > 0 \/ InTransactions) =>
         /\ senderBalance # Null
         /\ gate = "sufficient"
         /\ ~DecLess(BalanceFormatted(senderBalance), Required)
    /\ gate = "insufficient" => ~attempted /\ sent = 0 /\ ~InTransactions

C7_Witness ==
    /\ transferDirection = "one-to-many"
    /\ transactionCount = 2
    /\ k = 2
    /\ attempted
    /\ sent = 2
    /\ gate = "sufficient"

\* C8: the amount of a submitted token transfer is amount * 10^decimals for
\* the decimals() of the token contract; 1,000,000 for amount 1 and
\* decimals() = 6.
C8_TokenAmountScaledByDecimals ==
    (transferType = "token" /\ tx # Null) =>
      /\ DecEq(tx.value, Dec(amount.m, amount.e + tokenContract.decimals))
      /\ (tokenContract.decimals = 6 /\ amount = Dec(1, 0)) =>
           tx.value.e >= 0 /\ tx.value.m * Pow10(tx.value.e) = 1000000

C8_Witness ==
    /\ transferType = "token"
    /\ tokenContract # Null
    /\ tx # Null
    /\ amount = Dec(1, 0)
    /\ IF tokenContract = Null THEN FALSE ELSE tokenContract.decimals = 6
    /\ IF tx = Null THEN FALSE ELSE tx.value = Dec(1, 6)

\* C9: when the retried receipt lookup ends with no receipt, the run prints
\* "still pending", not "FAILED", and goes on to the next index of the same
\* sender, or to the next sender after the last index.
C9_NoReceiptIsPending ==
    /\ [][(pc = "receipt" /\ rt'.status = "returned" /\ rt'.value = Null)
          => /\ log' = "pending"
             /\ log' # "failed"
             /\ pc' = "tx"
             /\ k' = k
             /\ i' = i + 1]_vars
    /\ [][(pc = "tx" /\ log = "pending")
          => \/ i < transactionCount /\ k' = k /\ i' = i /\ pc' \in {"fee", "send"}
             \/ i < transactionCount /\ k' = k /\ i' = i + 1 /\ pc' = "tx"
             \/ i >= transactionCount /\ k' = k + 1 /\ pc' = "sender"]_vars

C9_Witness ==
    /\ pc = "tx"
    /\ log = "pending"
    /\ rt.status = "returned"
    /\ rt.value = Null
    /\ i = 1
    /\ transactionCount = 2

\* C10: a failed fee-data fetch, or a submission that failed on every
\* attempt of retry, is printed; no receipt is looked up for that index and
\* the loop goes on with the next index of the same sender.
C10_TransactionFailureContinues ==
    /\ [][(\/ pc = "fee" /\ gasPrice' = Null
           \/ pc = "send" /\ rt'.status = "thrown")
          => /\ log' \in {"feeError", "sendError"}
             /\ pc' = "tx"
             /\ k' = k
             /\ i' = i + 1
             /\ tx' = Null
             /\ sent' = sent]_vars
    /\ [][(pc = "tx" /\ log \in {"feeError", "sendError"})
          => \/ i < transactionCount /\ k' = k /\ pc' \in {"tx", "fee", "send"}
             \/ i >= transactionCount /\ k' = k + 1 /\ pc' = "sender"]_vars

C10_Witness ==
    /\ pc = "tx"
    /\ log = "sendError"
    /\ rt.status = "thrown"
    /\ rt.calls = MAX_RETRIES
    /\ k = 1
    /\ i = 1
    /\ transactionCount = 2

\* C11: when the balance check of a sender fails on every attempt of retry,
\* the failure is printed, no transaction is submitted for that sender, and
\* the loop over the keys goes on with the next key of the list.
C11_BalanceCheckFailureSkipsSender ==
    /\ [](pc = "balance" => sent = 0 /\ ~attempted /\ tx = Null)
    /\ [][(pc = "balance" /\ rt.calls = MAX_RETRIES - 1 /\ senderBalance' = Null)
          => /\ log' = "balanceCheckFailed"
             /\ gate' = "unchecked"
             /\ total' = total
             /\ sent' = 0
             /\ pc' = "sender"
             /\ k' = k + 1]_vars

C11_Witness ==
    /\ pc = "sender"
    /\ k = 2
    /\ Len(privateKeys) = 2
    /\ log = "balanceCheckFailed"
    /\ gate = "unchecked"
    /\ netFailed
    /\ total = 0

\* C12: the run is strictly sequential. The loop leaves a sender only from
\* its balance check, its gate, or the head of the transaction loop with
\* every index done, so no network operation of sender k+1 starts while a
\* submission or a receipt lookup of sender k is pending; the index moves
\* on only when its receipt lookup has ended or it had no submission, and a
\* submission starts only at the head of the transaction loop with no
\* transaction pending.
C12_StrictlySequential ==
    /\ [](pc \in {"balance", "gate"} => tx = Null /\ sent = 0 /\ i = 0)
    /\ [](pc \in {"fee", "send"} => tx = Null)
    /\ [](pc \in {"settle", "receipt"} => tx # Null)
    /\ [][(k' # k)
          => /\ pc' = "sender"
             /\ \/ pc = "load"
                \/ pc \in {"balance", "gate"} /\ k' = k + 1
                \/ pc = "tx" /\ i >= transactionCount /\ k' = k + 1]_vars
    /\ [][(i' # i)
          => \/ pc = "receipt" /\ rt'.status # "running" /\ i' = i + 1 /\ k' = k
             \/ pc \in {"tx", "fee", "send"} /\ tx' = Null /\ i' = i + 1 /\ k' = k
             \/ pc = "tx" /\ i >= transactionCount /\ pc' = "sender"]_vars
    /\ [][(pc' \in {"fee", "send"} /\ pc \notin {"fee", "send"})
          => pc = "tx" /\ i < transactionCount /\ tx' = Null /\ i' = i]_vars

C12_Witness ==
    /\ pc = "balance"
    /\ k = 2
    /\ transactionCount = 2
    /\ total = 2
    /\ log = "processing"

\* C13: the receipt lookup is repeated while it returns no receipt, up to
\* MAX_RETRIES lookups, and only then is the transaction reported as still
\* pending: a "still pending" report follows MAX_RETRIES lookups.
C13_PendingOnlyAfterAllLookups ==
    (pc = "tx" /\ log = "pending") => rt.calls = MAX_RETRIES

\* C14: when the receipt lookup throws on every attempt of retry, the run
\* prints "Error checking transaction status", never "FAILED", and goes on
\* with the next index; "FAILED" is printed only for a receipt whose status
\* is not 1 and "Success" only for a receipt whose status is 1.
C14_ReceiptErrorIsNotFailure ==
    /\ [](log = "statusError" =>
            rt.status = "thrown" /\ rt.calls = MAX_RETRIES /\ tx # Null)
    /\ [](log = "failed" =>
            /\ rt.status = "returned"
            /\ rt.value \notin {Null, Undefined}
            /\ rt.value.status # 1)
    /\ [](log = "success" =>
            /\ rt.status = "returned"
            /\ rt.value \notin {Null, Undefined}
            /\ rt.value.status = 1)
    /\ [][(pc = "receipt" /\ rt'.status = "thrown")
          => /\ rt'.calls = MAX_RETRIES
             /\ log' = "statusError"
             /\ pc' = "tx"
             /\ k' = k
             /\ i' = i + 1
             /\ total' = total]_vars
    /\ [][(pc = "tx" /\ log = "statusError")
          => \/ i < transactionCount /\ k' = k /\ pc' \in {"tx", "fee", "send"}
             \/ i >= transactionCount /\ k' = k + 1 /\ pc' = "sender"]_vars

C14_Witness ==
    /\ pc = "tx"
    /\ log = "statusError"
    /\ rt.status = "thrown"
    /\ rt.error = MAX_RETRIES
    /\ i = 1
    /\ transactionCount = 2
    /\ sent = 1

\* C15: in fan-in mode a sender whose balance is at least the amount of one
\* transaction is not skipped, even when the balance is less than
\* amount * count; its balance is checked once, at the head of its pass,
\* and every index 0 .. count-1 is taken before the loop leaves the sender.
C15_FanInGateSingleAmount ==
    /\ [][(/\ transferDirection = "many-to-one"
           /\ pc = "gate"
           /\ ~DecLess(WholeBalance(senderBalance), amount)
           /\ DecLess(WholeBalance(senderBalance),
                      DecTimes(amount, transactionCount)))
          => gate' = "sufficient" /\ pc' = "tx" /\ k' = k /\ i' = 0]_vars
    /\ [][(transferDirection = "many-to-one" /\ pc' = "balance" /\ pc # "balance")
          => pc = "sender"]_vars
    /\ [][(transferDirection = "many-to-one" /\ InTransactions /\ k' # k)
          => pc = "tx" /\ i >= transactionCount]_vars

\* C16: in fan-in mode the target list plays no part: the run is not ended
\* at input loading because of the target file, whether that file is
\* absent, empty or filled; only the key file can end it there.
C16_FanInIgnoresTargetFile ==
    (transferDirection = "many-to-one" /\ pc = "exit" /\ log = "inputError")
    => readPrivateKeysExits

\* C17: for every index the order is: the submission succeeds, the run
\* sleeps SETTLE_DELAY exactly once, the receipt is looked up, the status
\* is printed. An index whose submission did not succeed has no settle
\* delay and no receipt lookup.
C17_SubmitSettlePollReport ==
    /\ pc \in {"tx", "fee", "send"} /\ log \in {"sending", "feeError", "sendError"}
         => slept = 0 /\ tx = Null
    /\ pc = "settle" => tx # Null /\ log = "submitted" /\ slept = 0
                        /\ rt.status = "returned"
    /\ pc = "receipt" => tx # Null /\ log = "submitted" /\ slept = SETTLE_DELAY
    /\ log \in {"success", "failed", "pending", "statusError"}
         => /\ pc = "tx"
            /\ tx # Null
            /\ slept = SETTLE_DELAY
            /\ rt.status \in {"returned", "thrown"}
            /\ rt.calls >= 1
    /\ slept \in {0, SETTLE_DELAY}
    /\ slept # 0 => tx # Null

C17_Witness ==
    /\ pc = "receipt"
    /\ rt.calls = 0
    /\ slept = SETTLE_DELAY
    /\ tx # Null
    /\ i = 1

\* C18: in token mode the gate skips a sender exactly when its balance in
\* whole tokens, by the decimals() of the token contract, is less than the
\* required amount (amount * count in fan-out, amount in fan-in).
C18_TokenGateUsesTokenDecimals ==
    [][(pc = "gate" /\ transferType = "token")
       => /\ (gate' = "insufficient") <=>
               DecLess(formatUnits(senderBalance, tokenContract.decimals), Required)
          /\ (gate' = "sufficient") <=>
               ~DecLess(formatUnits(senderBalance, tokenContract.decimals), Required)]_vars

\* C19: for every sender the submitted transactions are at most count, at
\* most one per index; the submission of one index is invoked at most
\* MAX_RETRIES times; once the submission of an index has succeeded the run
\* only settles, looks up the receipt and moves to the next index.
C19_SubmissionsBounded ==
    /\ [](sent <= transactionCount)
    /\ [](pc \in {"tx", "fee", "send"} => sent <= i)
    /\ [](pc \in {"settle", "receipt"} => sent <= i + 1 /\ i < transactionCount)
    /\ [](pc = "send" => rt.calls < MAX_RETRIES /\ rt.status = "running" /\ tx = Null)
    /\ [](pc = "settle" => rt.calls \in 1..MAX_RETRIES)
    /\ [](pc = "tx" /\ log = "sendError" /\ rt.status = "thrown"
            => rt.calls = MAX_RETRIES)
    /\ [][(sent' > sent)
          => pc = "send" /\ tx = Null /\ sent' = sent + 1 /\ pc' = "settle"]_vars
    /\ [][(pc \in {"settle", "receipt"})
          => /\ sent' = sent
             /\ tx' = tx
             /\ (pc' \in {"settle", "receipt"} /\ i' = i) \/
                (pc' = "tx" /\ i' = i + 1)]_vars
    /\ [][(pc \in {"tx", "fee", "send"} /\ pc' \in {"tx", "fee", "send"})
          => i' >= i]_vars

C19_Witness ==
    /\ pc = "settle"
    /\ sent = transactionCount
    /\ transactionCount = 2
    /\ i = 1
    /\ rt.calls = MAX_RETRIES
    /\ tx # Null

\* C20: once the input files are loaded the run passes every key of the
\* list, whatever happened to earlier keys, and ends with "All transactions
\* completed" and exit code 0: a run that has loaded its inputs ends in no
\* other way.
C20_LoadedRunCompletes ==
    (pc = "exit" /\ privateKeys # <<>>)
    => /\ exitCode = 0
       /\ log = "completed"
       /\ k = Len(privateKeys) + 1

====
